---------------------------- MODULE Spec2Model ----------------------------
(***************************************************************************)
(* hdhr-dvr: the recording scheduler, the capture workers and the HTTP     *)
(* handlers of app.go, over the SQLite store they share.                   *)
(*                                                                         *)
(* Time is an integer number of grid units; one minute is Minute units.    *)
(* A job's "date start_time" text is a minute index (BadTime for a text    *)
(* that time.ParseInLocation rejects), and parsing turns it into an        *)
(* instant in grid units.                                                  *)
(***************************************************************************)
EXTENDS Integers, Sequences, FiniteSets, Bags, TLC

\* ------------------------------------------------------------------ bounds

\* Grid units per minute (1 * time.Minute).
Minute == 4
\* The clock stops at MaxClock grid units.
MaxClock == 11
\* Most rows the recordings table is ever given (AUTOINCREMENT ids 1..MaxJobs).
MaxJobs == 2
\* Largest start_time minute index a request names.
MaxStartMinute == 2
\* Largest duration (minutes) a request names.
MaxDuration == 2
\* Most grid units between the ticker firing and the scheduler reading time.Now().
MaxJitter == 2

\* Largest size (bytes) of a capture file, and largest single-digit range bound.
MaxFileSize == 3

\* Capacity of recordingCh.
RecordingChCap == 100

\* Minutes in a day: the date's weight in a start instant.
MinutesPerDay == 1440

\* ------------------------------------------------------------- value sets

\* `now` before the scheduler's first tick.
NoTick == -1
\* A date/start_time text that time.ParseInLocation rejects.
BadTime == -1

\* A path segment that strconv.Atoi rejects.
BadId == -1
\* The result of os.Stat when the handler does not reach it or finds no file.
NoStat == -1

Ids == 1..MaxJobs
PathIds == Ids \cup {BadId}
FileSizes == 0..MaxFileSize
StartTimes == 0..MaxStartMinute
Dates == {0}

\* The channels table: guide_number -> guide_name.  Filled by loadChannels with
\* INSERT OR IGNORE and never changed by a handler.
channels == [gn \in {"5"} |-> "KQED"]
RequestChannels == {"5", "9"}

Statuses == {"pending", "recording", "completed", "failed"}

\* cmd.Run()'s error: nil, the process could not be started, it exited non-zero.
RunErrors == {"nil", "not started", "exit status 1"}

VARIABLES
    clock,        \* time.Now(), in grid units
    phase,        \* the process: "down", "blocked" (main stuck in loadRecordings), "up"
    nextTick,     \* the instant at which the ticker fires next
    now,          \* the scheduler's `now` of its latest tick (NoTick before the first)
    snapshot,     \* the scheduler's `recordings` slice of its latest tick
    recordings,   \* the recordings table: id -> row
    nextId,       \* the table's AUTOINCREMENT sequence
    recordingCh,  \* the buffered channel of Recording values
    blocked,      \* Recordings whose createRecording is parked in `recordingCh <- recording`
    workers,      \* the running startRecording goroutines (a bag)
    launches,     \* history: id -> the `now` of every tick that ran `go startRecording(r)`
    issued,       \* history: the ids of the rows ever inserted
    files,        \* the capture files that exist under STORAGE_DIR (their paths)
    http,         \* the latest HTTP exchange observed: request, os.Stat result, response
    tickPc,       \* the scheduler inside a tick: "idle" (in select), "loop" (rows read)
    readFailed    \* history: a tick's db.Query has failed

vars == <<clock, phase, nextTick, now, snapshot, recordings, nextId,
          recordingCh, blocked, workers, launches, issued, files, http,
          tickPc, readFailed>>

\* ---------------------------------------------------------------- helpers

\* rows.Scan: the Recording struct of row id.
Scan(id) ==
    [ID |-> id,
     ChannelID |-> recordings[id].channel_id,
     Date |-> recordings[id].date,
     StartTime |-> recordings[id].start_time,
     Duration |-> recordings[id].duration,
     Status |-> recordings[id].status]

\* SELECT ... FROM recordings WHERE status = 'pending'
PendingIds == {id \in DOMAIN recordings : recordings[id].status = "pending"}

\* time.ParseInLocation("2006-01-02 15:04", date + " " + start_time, loc) succeeds.
ParseOk(r) == r.StartTime # BadTime

\* The instant time.ParseInLocation returns.
ParseInLocation(r) == (r.Date * MinutesPerDay + r.StartTime) * Minute

\* now.After(startTime) && now.Before(startTime.Add(1*time.Minute))
IsDue(n, startTime) == n > startTime /\ n < startTime + Minute

\* The ids of a set in increasing order (the order the rows are read in).
RECURSIVE InOrder(_)
InOrder(S) ==
    IF S = {} THEN <<>>
    ELSE LET m == CHOOSE x \in S : \A y \in S : x <= y
         IN <<m>> \o InOrder(S \ {m})

\* The first n elements of a sequence.
Take(s, n) == [i \in 1..(IF n < Len(s) THEN n ELSE Len(s)) |-> s[i]]

\* ------------------------------------------------------------ text and HTTP

\* A text is a sequence of characters; the word "bytes" (and any other unit
\* or word without "=", "-" or ",") is kept as one element.
Digit == ("0" :> 0) @@ ("1" :> 1) @@ ("2" :> 2) @@ ("3" :> 3) @@ ("4" :> 4)
         @@ ("5" :> 5) @@ ("6" :> 6) @@ ("7" :> 7) @@ ("8" :> 8) @@ ("9" :> 9)

\* strings.Split(s, sep): the pieces of s between the occurrences of sep.
RECURSIVE Split(_, _)
Split(s, sep) ==
    IF \E i \in 1..Len(s) : s[i] = sep
    THEN LET i == CHOOSE k \in 1..Len(s) :
                      s[k] = sep /\ \A j \in 1..(k - 1) : s[j] # sep
         IN <<SubSeq(s, 1, i - 1)>> \o Split(SubSeq(s, i + 1, Len(s)), sep)
    ELSE <<s>>

\* The value of a run of decimal digits.
RECURSIVE Decimal(_)
Decimal(s) ==
    IF s = <<>> THEN 0
    ELSE Decimal(SubSeq(s, 1, Len(s) - 1)) * 10 + Digit[s[Len(s)]]

\* strconv.ParseInt(s, 10, 64): an optional sign, then one or more digits.
ParseInt(s) ==
    LET signed == s # <<>> /\ s[1] \in {"+", "-"}
        digits == IF signed THEN Tail(s) ELSE s
    IN IF digits = <<>> \/ \E i \in 1..Len(digits) : digits[i] \notin DOMAIN Digit
       THEN [ok |-> FALSE, val |-> 0]
       ELSE [ok |-> TRUE,
             val |-> IF signed /\ s[1] = "-" THEN 0 - Decimal(digits) ELSE Decimal(digits)]

\* The decimal text of n (%d, strconv.FormatInt(n, 10)).
RECURSIVE FormatInt(_)
FormatInt(n) ==
    IF n < 0 THEN <<"-">> \o FormatInt(0 - n)
    ELSE IF n < 10 THEN <<CHOOSE c \in DOMAIN Digit : Digit[c] = n>>
    ELSE FormatInt(n \div 10) \o <<CHOOSE c \in DOMAIN Digit : Digit[c] = n % 10>>

\* A request body of POST /api/recordings that no request carries.
NoRequest == [channelId |-> "", date |-> 0, startTime |-> 0, duration |-> 0]

\* What a handler writes: the status code, the headers it sets, the id of the
\* job it encodes, and the file offsets it streams.
Response(code) ==
    [code |-> code,
     contentRange |-> <<>>,
     contentLength |-> <<>>,
     acceptRanges |-> "",
     contentDisposition |-> <<>>,
     contentType |-> "",
     id |-> 0,
     fileBytes |-> <<>>]

\* No exchange: the step taken was not a handler's.
NoExchange ==
    [op |-> "", id |-> 0, create |-> NoRequest, range |-> <<>>, stat |-> NoStat,
     resp |-> Response(0)]

\* --------------------------------------------------------------------- Init

Init ==
    /\ clock = 0
    /\ phase = "down"
    /\ nextTick = 0
    /\ now = NoTick
    /\ snapshot = {}
    /\ recordings = << >>
    /\ nextId = 1
    /\ recordingCh = << >>
    /\ blocked = << >>
    /\ workers = EmptyBag
    /\ launches = [id \in Ids |-> {}]
    /\ issued = {}
    /\ files = {}
    /\ http = NoExchange
    /\ tickPc = "idle"
    /\ readFailed = FALSE

\* ------------------------------------------------------------------- main

\* loadRecordings: the pending rows whose start lies ahead, in the order read;
\* each is sent on recordingCh.  A row already in progress or already past
\* is only logged, and a row whose start does not parse is skipped.
LoadRecordings ==
    LET future == {id \in PendingIds :
                      /\ ParseOk(Scan(id))
                      /\ ~ (/\ clock > ParseInLocation(Scan(id))
                            /\ clock < ParseInLocation(Scan(id))
                                         + recordings[id].duration * Minute)
                      /\ clock < ParseInLocation(Scan(id))}
        order == InOrder(future)
    IN [i \in 1..Len(order) |-> Scan(order[i])]

\* main: loadRecordings, then `go startRecordingScheduler()` and the HTTP
\* server.  With more sends than recordingCh holds, main stays parked in
\* loadRecordings: nothing receives before the scheduler runs.
Main ==
    /\ phase = "down"
    /\ IF Len(LoadRecordings) > RecordingChCap
       THEN /\ phase' = "blocked"
            /\ recordingCh' = Take(LoadRecordings, RecordingChCap)
            /\ UNCHANGED nextTick
       ELSE /\ phase' = "up"
            /\ recordingCh' = LoadRecordings
            /\ nextTick' = clock + Minute
    /\ now' = NoTick
    /\ snapshot' = {}
    /\ UNCHANGED <<clock, recordings, nextId, blocked, workers, launches, files, issued>>

\* The process ends (log.Fatal, a kill, a power cut): goroutines and the
\* in-memory channel go, the store stays.
Crash ==
    /\ phase # "down"
    /\ phase' = "down"
    /\ recordingCh' = << >>
    /\ blocked' = << >>
    /\ workers' = EmptyBag
    /\ now' = NoTick
    /\ snapshot' = {}
    /\ nextTick' = 0
    /\ UNCHANGED <<clock, recordings, nextId, launches, files, issued>>

\* ------------------------------------------------------------------ clock

\* Time passes.  A running scheduler reads time.Now() at most MaxJitter after
\* the ticker fired.
Advance ==
    /\ clock < MaxClock
    /\ phase = "up" => clock < nextTick + MaxJitter
    /\ clock' = clock + 1
    /\ UNCHANGED <<phase, nextTick, now, snapshot, recordings, nextId,
                   recordingCh, blocked, workers, launches, files, issued>>

\* -------------------------------------------------------------- scheduler

\* The jobs of a slice that the tick's loop starts.
Due(slice, n) ==
    {r \in slice : ParseOk(r) /\ IsDue(n, ParseInLocation(r))}

\* case <-ticker.C: one tick of startRecordingScheduler.
Tick(queryOk) ==
    /\ phase = "up"
    /\ clock >= nextTick
    /\ nextTick' = nextTick + Minute
    /\ now' = clock
    /\ IF ~queryOk
       THEN /\ snapshot' = {}
            /\ UNCHANGED <<workers, launches>>
       ELSE /\ snapshot' = {Scan(id) : id \in PendingIds}
            /\ workers' = workers (+)
                 SetToBag({[r |-> r, pc |-> "lookup", err |-> "nil"] : r \in Due(snapshot', clock)})
            /\ launches' = [id \in Ids |->
                 IF \E r \in Due(snapshot', clock) : r.ID = id
                 THEN launches[id] \cup {clock}
                 ELSE launches[id]]
    /\ UNCHANGED <<clock, phase, recordings, nextId, recordingCh, blocked, files, issued>>

\* A receive that starts the capture of the job it takes from the channel.
ReceiveStarting ==
    /\ phase = "up"
    /\ recordingCh # << >>
    /\ recordingCh' = Tail(recordingCh)
    /\ workers' = workers (+)
         SetToBag({[r |-> Head(recordingCh), pc |-> "lookup", err |-> "nil"]})
    /\ UNCHANGED <<clock, phase, nextTick, now, snapshot, recordings, nextId,
                   blocked, launches, files, issued>>

\* A receive that never wakes a parked sender.
ReceiveNoWakeup ==
    /\ phase = "up"
    /\ recordingCh # << >>
    /\ recordingCh' = Tail(recordingCh)
    /\ UNCHANGED <<clock, phase, nextTick, now, snapshot, recordings, nextId,
                   blocked, workers, launches, files, issued>>

\* case <-recordingCh: the value is dropped; a parked sender's value moves in.
Receive ==
    /\ phase = "up"
    /\ recordingCh # << >>
    /\ IF blocked # << >>
       THEN /\ recordingCh' = Append(Tail(recordingCh), Head(blocked))
            /\ blocked' = Tail(blocked)
       ELSE /\ recordingCh' = Tail(recordingCh)
            /\ UNCHANGED blocked
    /\ UNCHANGED <<clock, phase, nextTick, now, snapshot, recordings, nextId,
                   workers, launches, files, issued>>

\* ---------------------------------------------------------- capture worker

\* startRecording up to cmd.Run(): the channel lookup; a missing channel ends
\* the goroutine.
StartRecordingBegin(w) ==
    /\ phase = "up"
    /\ BagIn(w, workers)
    /\ w.pc = "lookup"
    /\ IF w.r.ChannelID \in DOMAIN channels
       THEN workers' = (workers (-) SetToBag({w})) (+) SetToBag({[w EXCEPT !.pc = "ffmpeg"]})
       ELSE workers' = workers (-) SetToBag({w})
    /\ UNCHANGED <<clock, phase, nextTick, now, snapshot, recordings, nextId,
                   recordingCh, blocked, launches, files, issued>>

\* INSERT OR REPLACE: the update writes the row even when it is gone.
ReplaceCompleted(id) ==
    [i \in DOMAIN recordings \cup {id} |->
        IF i = id
        THEN [channel_id |-> "", date |-> 0, start_time |-> BadTime,
              duration |-> 0, status |-> "completed"]
        ELSE recordings[i]]

\* UPDATE recordings SET status = 'completed' WHERE id = ?
UpdateCompleted(id) ==
    [i \in DOMAIN recordings |->
        IF i = id THEN [recordings[i] EXCEPT !.status = "completed"]
        ELSE recordings[i]]

\* outputFile: STORAGE_DIR/<date>-<start_time>-<guide_name>-<guide_number>.mp4,
\* as the tuple of its four parts.
OutputFile(r) == <<r.Date, r.StartTime, channels[r.ChannelID], r.ChannelID>>

\* Recording.GetFilePath of package types: <date>-<start_time>-<title>.mp4,
\* the title being the channel id for a job without one (the store keeps no
\* title), as the tuple of its three parts.
GetFilePath(r) == <<r.Date, r.StartTime, r.ChannelID>>

\* logFile: /tmp/ffmpeg-<date>-<start_time>.log
LogFile(r) == <<"ffmpeg", r.Date, r.StartTime>>

\* cmd.Run() returns err (nil, or the process could not be started or exited
\* non-zero).  A run that returns nil has written outputFile.
StartRecordingRun(w, err) ==
    /\ phase = "up"
    /\ BagIn(w, workers)
    /\ w.pc = "ffmpeg"
    /\ workers' = (workers (-) SetToBag({w}))
                  (+) SetToBag({[w EXCEPT !.pc = "ran", !.err = err]})
    /\ files' = IF err = "nil" THEN files \cup {OutputFile(w.r)} ELSE files
    /\ UNCHANGED <<clock, phase, nextTick, now, snapshot, recordings, nextId,
                   recordingCh, blocked, launches, issued>>

\* A return that writes 'failed' on an error, whatever the row's status.
StartRecordingEndMarking(w) ==
    /\ phase = "up"
    /\ BagIn(w, workers)
    /\ w.pc = "ran"
    /\ workers' = workers (-) SetToBag({w})
    /\ recordings' = [i \in DOMAIN recordings |->
                        IF i = w.r.ID
                        THEN [recordings[i] EXCEPT
                                !.status = IF w.err = "nil" THEN "completed" ELSE "failed"]
                        ELSE recordings[i]]
    /\ UNCHANGED <<clock, phase, nextTick, now, snapshot, nextId,
                   recordingCh, blocked, launches, files, issued>>

\* After cmd.Run(): on an error the goroutine only logs and returns; on nil it
\* updates the row, whatever the row's status, and returns.
StartRecordingEnd(w) ==
    /\ phase = "up"
    /\ BagIn(w, workers)
    /\ w.pc = "ran"
    /\ workers' = workers (-) SetToBag({w})
    /\ IF w.err # "nil"
       THEN UNCHANGED recordings
       ELSE recordings' = UpdateCompleted(w.r.ID)
    /\ UNCHANGED <<clock, phase, nextTick, now, snapshot, nextId,
                   recordingCh, blocked, launches, files, issued>>

\* ---------------------------------------------------------- HTTP handlers

\* A row id one above the largest in the table: the freed id of a deleted
\* last row is given out again.
LastInsertRowid ==
    IF DOMAIN recordings = {} THEN 1
    ELSE (CHOOSE m \in DOMAIN recordings : \A i \in DOMAIN recordings : i <= m) + 1

\* result.LastInsertId(): the id column is INTEGER PRIMARY KEY AUTOINCREMENT,
\* so the new row takes the next value of the table's sequence.
LastInsertId == nextId

\* A validation that forgets the channel.
RejectedForDuration(req) == req.duration <= 0

\* createRecording returns before the INSERT: the duration is not positive,
\* or SELECT EXISTS finds no channel with the request's guide number.
Rejected(req) ==
    req.duration <= 0 \/ req.channelId \notin DOMAIN channels

\* The ids the model hands out: MaxJobs after an empty table and MaxJobs
\* after a table whose rows fill recordingCh.
IdsLeft ==
    \E first \in {1, RecordingChCap + 1} : nextId \in first..(first + MaxJobs - 1)

\* POST /api/recordings
CreateRecording(req) ==
    /\ phase = "up"
    /\ IdsLeft
    /\ IF Rejected(req)
       THEN UNCHANGED <<recordings, nextId, recordingCh, blocked, issued>>
       ELSE /\ recordings' = recordings @@ (LastInsertId :>
                 [channel_id |-> req.channelId,
                  date |-> req.date,
                  start_time |-> req.startTime,
                  duration |-> req.duration,
                  status |-> "pending"])
            /\ nextId' = nextId + 1
            /\ issued' = issued \cup {LastInsertId}
            /\ LET recording == [ID |-> LastInsertId,
                                 ChannelID |-> req.channelId,
                                 Date |-> req.date,
                                 StartTime |-> req.startTime,
                                 Duration |-> req.duration,
                                 Status |-> "pending"]
               IN IF Len(recordingCh) < RecordingChCap
                  THEN /\ recordingCh' = Append(recordingCh, recording)
                       /\ UNCHANGED blocked
                  ELSE /\ blocked' = Append(blocked, recording)
                       /\ UNCHANGED recordingCh
    /\ UNCHANGED <<clock, phase, nextTick, now, snapshot, workers, launches, files>>

\* What createRecording answers: 400 for a duration that is not positive, then
\* 404 for a channel the table lacks, else 201 with the stored job; nothing
\* while the handler is parked in `recordingCh <- recording`.
CreateRecordingResponse(req) ==
    IF req.duration <= 0
    THEN [Response(400) EXCEPT !.contentType = "application/json"]
    ELSE IF req.channelId \notin DOMAIN channels
    THEN [Response(404) EXCEPT !.contentType = "application/json"]
    ELSE IF Len(recordingCh) < RecordingChCap
    THEN [Response(201) EXCEPT !.contentType = "application/json", !.id = LastInsertId]
    ELSE Response(0)

\* A delete that also removes the job's capture file.
DeleteRecordingCascade(id) ==
    /\ phase = "up"
    /\ recordings' = [i \in DOMAIN recordings \ {id} |-> recordings[i]]
    /\ files' = IF id \in DOMAIN recordings
                THEN files \ {<<recordings[id].date, recordings[id].start_time,
                                channels[recordings[id].channel_id],
                                recordings[id].channel_id>>}
                ELSE files
    /\ UNCHANGED <<clock, phase, nextTick, now, snapshot, nextId,
                   recordingCh, blocked, workers, launches, issued>>

\* DELETE /api/recordings/{id}
DeleteRecording(id) ==
    /\ phase = "up"
    /\ IF id = BadId
       THEN UNCHANGED recordings
       ELSE recordings' = [i \in DOMAIN recordings \ {id} |-> recordings[i]]
    /\ UNCHANGED <<clock, phase, nextTick, now, snapshot, nextId,
                   recordingCh, blocked, workers, launches, files, issued>>

\* What deleteRecording answers: 400 for an id that is no integer, else 204.
DeleteRecordingResponse(id) ==
    IF id = BadId THEN Response(400) ELSE Response(204)

\* A gate that forgets the status check.
GetRecordingFileGateOpen(id) ==
    IF id \notin DOMAIN recordings THEN 404 ELSE 0

\* GET /api/recordings/{id}/file, up to the status check: 404 for no row, 500
\* for a row whose channel the LEFT JOIN does not find (a NULL guide_name does
\* not scan into a string), 403 for a row that is not completed, 0 when the
\* handler goes on to the file.
GetRecordingFileGate(id) ==
    IF id \notin DOMAIN recordings THEN 404
    ELSE IF recordings[id].channel_id \notin DOMAIN channels THEN 500
    ELSE IF recordings[id].status # "completed" THEN 403
    ELSE 0

\* filePath of getRecordingFile: STORAGE_DIR/<date>-<start_time>-<guide_name>-
\* <channel_id>.mp4, the guide name read by the LEFT JOIN on channels.
FilePath(r) == <<r.Date, r.StartTime, channels[r.ChannelID], r.ChannelID>>

\* The offsets start..end of the file, in order: file.Seek(start), then
\* io.Copy of at most end-start+1 bytes.
Stream(start, end) == [i \in 1..(end - start + 1) |-> start + i - 1]

\* An omitted end taken to be the file's size.
DefaultEndSize(fileSize) == fileSize

\* End is omitted: fileInfo.Size() - 1.
DefaultEnd(fileSize) == fileSize - 1

\* A validation that lets the end reach the file's size.
UnsatisfiableLoose(start, end, fileSize) ==
    start < 0 \/ end > fileSize \/ start > end

\* start < 0 || end >= fileSize || start > end
Unsatisfiable(start, end, fileSize) ==
    start < 0 \/ end >= fileSize \/ start > end

\* The answer to a range the file satisfies.
PartialContent(start, end, fileSize) ==
    [Response(206) EXCEPT
        !.contentRange = <<"bytes", " ">> \o FormatInt(start) \o <<"-">>
                         \o FormatInt(end) \o <<"/">> \o FormatInt(fileSize),
        !.contentLength = FormatInt(end - start + 1),
        !.acceptRanges = "bytes",
        !.fileBytes = Stream(start, end)]

\* A full answer that does not advertise range support.
FullContentPlain(filePath, fileSize) ==
    [Response(200) EXCEPT
        !.contentDisposition = <<"attachment; filename=", filePath>>,
        !.contentType = "video/mp4",
        !.contentLength = FormatInt(fileSize),
        !.fileBytes = Stream(0, fileSize - 1)]

\* The answer to a request without a Range header: the status is the 200 that
\* net/http writes with the first byte (or when the handler returns).
FullContent(filePath, fileSize) ==
    [Response(200) EXCEPT
        !.contentDisposition = <<"attachment; filename=", filePath>>,
        !.contentType = "video/mp4",
        !.contentLength = FormatInt(fileSize),
        !.acceptRanges = "bytes",
        !.fileBytes = Stream(0, fileSize - 1)]

\* getRecordingFile from the Range header on, for a file of fileSize bytes.
ServeFile(filePath, rangeHeader, fileSize) ==
    IF rangeHeader # <<>>
    THEN LET rangeParts == Split(rangeHeader, "=")
         IN IF Len(rangeParts) # 2 \/ rangeParts[1] # <<"bytes">>
            THEN Response(400)
            ELSE LET rangeValues == Split(rangeParts[2], "-")
                 IN IF Len(rangeValues) < 1 \/ Len(rangeValues) > 2
                    THEN Response(400)
                    ELSE LET start == ParseInt(rangeValues[1])
                             end == IF Len(rangeValues) = 2 /\ rangeValues[2] # <<>>
                                    THEN ParseInt(rangeValues[2])
                                    ELSE [ok |-> TRUE, val |-> DefaultEnd(fileSize)]
                         IN IF ~start.ok \/ ~end.ok
                            THEN Response(400)
                            ELSE IF Unsatisfiable(start.val, end.val, fileSize)
                            THEN Response(416)
                            ELSE PartialContent(start.val, end.val, fileSize)
    ELSE FullContent(filePath, fileSize)

\* What os.Stat(filePath) gives a fetch of id when the file's size is size:
\* NoStat when the handler returns before it or the file does not exist.
Stat(id, size) ==
    IF id # BadId /\ GetRecordingFileGate(id) = 0 /\ FilePath(Scan(id)) \in files
    THEN size
    ELSE NoStat

\* What getRecordingFile answers: 400 for an id that is no integer, 404 for no
\* row, 403 for a row that is not completed, 404 for no file, else the file.
GetRecordingFileResponse(id, rangeHeader, size) ==
    IF id = BadId THEN Response(400)
    ELSE IF GetRecordingFileGate(id) # 0 THEN Response(GetRecordingFileGate(id))
    ELSE IF Stat(id, size) = NoStat THEN Response(404)
    ELSE ServeFile(FilePath(Scan(id)), rangeHeader, size)

\* A fetch that drops the row of a completed job whose file is gone.
GetRecordingFilePruning(id, rangeHeader, size) ==
    /\ phase = "up"
    /\ recordings' = IF id # BadId /\ GetRecordingFileGate(id) = 0
                        /\ FilePath(Scan(id)) \notin files
                     THEN [i \in DOMAIN recordings \ {id} |-> recordings[i]]
                     ELSE recordings
    /\ UNCHANGED <<clock, phase, nextTick, now, snapshot, nextId,
                   recordingCh, blocked, workers, launches, files, issued>>

\* GET /api/recordings/{id}/file: the handler only reads.
GetRecordingFile(id, rangeHeader, size) ==
    /\ phase = "up"
    /\ UNCHANGED <<clock, phase, nextTick, now, snapshot, recordings, nextId,
                   recordingCh, blocked, workers, launches, files, issued>>

\* Somebody removes a capture file from STORAGE_DIR.
RemoveFile(path) ==
    /\ path \in files
    /\ files' = files \ {path}
    /\ UNCHANGED <<clock, phase, nextTick, now, snapshot, recordings, nextId,
                   recordingCh, blocked, workers, launches, issued>>

Requests ==
    [channelId : RequestChannels, date : Dates,
     startTime : StartTimes \cup {BadTime}, duration : 0..MaxDuration]

\* ------------------------------------------------------------------- Next

\* What only some specifications follow: the HTTP exchanges, and the
\* scheduler's position inside a tick with the history of its failed reads.
observed == <<http, tickPc, readFailed>>
insideTick == <<tickPc, readFailed>>

\* The scheduler, the workers and the handlers' effect on the store; a tick
\* is one step, and the exchanges themselves are not observed.
Next ==
    \/ Main /\ UNCHANGED observed
    \/ Crash /\ UNCHANGED observed
    \/ Advance /\ UNCHANGED observed
    \/ \E queryOk \in BOOLEAN : Tick(queryOk) /\ UNCHANGED observed
    \/ Receive /\ UNCHANGED observed
    \/ \E w \in BagToSet(workers) : StartRecordingBegin(w) /\ UNCHANGED observed
    \/ \E w \in BagToSet(workers), err \in RunErrors :
          StartRecordingRun(w, err) /\ UNCHANGED observed
    \/ \E w \in BagToSet(workers) : StartRecordingEnd(w) /\ UNCHANGED observed
    \/ \E req \in Requests : CreateRecording(req) /\ UNCHANGED observed
    \/ \E id \in PathIds : DeleteRecording(id) /\ UNCHANGED observed

Spec == Init /\ [][Next]_vars

\* ----------------------------------------------------- the HTTP exchanges

\* The single-digit and a few two-digit numerals.
Numerals ==
    {<<c>> : c \in {d \in DOMAIN Digit : Digit[d] <= MaxFileSize}}
    \cup {<<"0", "1">>, <<"1", "0">>}

\* What stands where a range bound is expected.
BoundTexts == Numerals \cup {<<>>, <<"abc">>, <<"+", "1">>}

\* The Range header values a client sends; <<>> is no Range header.
Headers ==
    {<<>>}
    \cup {<<u, "=">> \o a \o <<"-">> \o b :
             u \in {"bytes", "items"}, a \in BoundTexts, b \in BoundTexts}
    \cup {<<u, "=">> \o a : u \in {"bytes", "items"}, a \in BoundTexts}
    \cup {<<"bytes", "=", a, "-", b, ",", c, "-", d>> :
             a \in {"0", "1"}, b \in {"0", "1"}, c \in {"0", "1"}, d \in {"0", "1"}}
    \cup {<<"bytes", "=", a, ",", b>> : a \in {"0", "1"}, b \in {"0", "1"}}
    \cup {<<"bytes", "0", "-", "1">>, <<"bytes">>, <<"0", "-", "1">>,
          <<"bytes", "=", "0", "-", "1", "=", "2">>}

\* The Range headers sent while the scheduler runs: none, the first byte, a
\* reversed range, a word.
LiveHeaders ==
    {<<>>, <<"bytes", "=", "0", "-", "0">>, <<"bytes", "=", "1", "-", "0">>,
     <<"bytes", "=", "abc">>}

\* The size the capture files have while the scheduler runs.
LiveSizes == {1}

\* The bodies posted while the scheduler runs.
LiveRequests ==
    [channelId : RequestChannels, date : Dates, startTime : {1}, duration : {-1, 0, 1}]

Exchange(op, id, create, range, stat, resp) ==
    [op |-> op, id |-> id, create |-> create, range |-> range, stat |-> stat,
     resp |-> resp]

\* The handlers with the exchange they make; every other step leaves none.
NextHTTP ==
    /\ UNCHANGED insideTick
    /\ \/ Main /\ http' = NoExchange
       \/ Advance /\ http' = NoExchange
       \/ Tick(TRUE) /\ http' = NoExchange
       \/ \E w \in BagToSet(workers) : StartRecordingBegin(w) /\ http' = NoExchange
       \/ \E w \in BagToSet(workers), err \in {"nil", "exit status 1"} :
             StartRecordingRun(w, err) /\ http' = NoExchange
       \/ \E w \in BagToSet(workers) : StartRecordingEnd(w) /\ http' = NoExchange
       \/ \E path \in files : RemoveFile(path) /\ http' = NoExchange
       \/ \E req \in LiveRequests :
             /\ CreateRecording(req)
             /\ http' = Exchange("POST", 0, req, <<>>, NoStat, CreateRecordingResponse(req))
       \/ \E id \in PathIds :
             /\ DeleteRecording(id)
             /\ http' = Exchange("DELETE", id, NoRequest, <<>>, NoStat,
                                  DeleteRecordingResponse(id))
       \/ \E id \in PathIds, rangeHeader \in LiveHeaders, size \in LiveSizes :
             /\ GetRecordingFile(id, rangeHeader, size)
             /\ http' = Exchange("GET", id, NoRequest, rangeHeader, Stat(id, size),
                                  GetRecordingFileResponse(id, rangeHeader, size))

SpecHTTP == Init /\ [][NextHTTP]_vars

\* ------------------------------------------------- the file server alone

\* A store after job 1 (minute 1, one minute long) was captured by the tick
\* that read 5: the row is completed and its file exists.
InitRange ==
    /\ clock = 6
    /\ phase = "up"
    /\ nextTick = 2 * Minute
    /\ now = 5
    /\ recordings = (1 :> [channel_id |-> "5", date |-> 0, start_time |-> 1,
                           duration |-> 1, status |-> "completed"])
    /\ snapshot = {[ID |-> 1, ChannelID |-> "5", Date |-> 0, StartTime |-> 1,
                    Duration |-> 1, Status |-> "pending"]}
    /\ nextId = 2
    /\ recordingCh = <<[ID |-> 1, ChannelID |-> "5", Date |-> 0, StartTime |-> 1,
                        Duration |-> 1, Status |-> "pending"]>>
    /\ blocked = << >>
    /\ workers = EmptyBag
    /\ launches = [id \in Ids |-> IF id = 1 THEN {5} ELSE {}]
    /\ issued = {1}
    /\ files = {<<0, 1, "KQED", "5">>}
    /\ http = NoExchange
    /\ tickPc = "idle"
    /\ readFailed = FALSE

\* Every Range header against every size of the file.
NextRange ==
    /\ UNCHANGED insideTick
    /\ \E rangeHeader \in Headers, size \in FileSizes :
           /\ GetRecordingFile(1, rangeHeader, size)
           /\ http' = Exchange("GET", 1, NoRequest, rangeHeader, Stat(1, size),
                                GetRecordingFileResponse(1, rangeHeader, size))

SpecRange == InitRange /\ [][NextRange]_vars

\* The state InitRange starts from, as a predicate: Spec and SpecHTTP both
\* reach a state that satisfies it.
RangeInitState ==
    /\ clock = 6 /\ phase = "up" /\ nextTick = 2 * Minute /\ now = 5
    /\ DOMAIN recordings = {1} /\ recordings[1].status = "completed"
    /\ recordings[1].start_time = 1 /\ recordings[1].duration = 1
    /\ Cardinality(snapshot) = 1 /\ nextId = 2 /\ Len(recordingCh) = 1
    /\ blocked = << >> /\ workers = EmptyBag /\ launches[1] = {5}
    /\ files = {<<0, 1, "KQED", "5">>}

\* ------------------------------------------------ the tick in its two parts

\* case <-ticker.C, up to the rows: now is read, then the pending rows are
\* queried into the slice; a failed query is logged and the tick is over.
TickQuery(queryOk) ==
    /\ phase = "up"
    /\ tickPc = "idle"
    /\ clock >= nextTick
    /\ nextTick' = nextTick + Minute
    /\ now' = clock
    /\ IF queryOk
       THEN /\ snapshot' = {Scan(id) : id \in PendingIds}
            /\ tickPc' = "loop"
            /\ UNCHANGED readFailed
       ELSE /\ snapshot' = {}
            /\ tickPc' = "idle"
            /\ readFailed' = TRUE
    /\ UNCHANGED <<clock, phase, recordings, nextId, recordingCh, blocked,
                   workers, launches, files, issued>>

\* for _, r := range recordings: every job of the slice that is due at now
\* gets `go startRecording(r)`; the scheduler is back in its select.
TickLoop ==
    /\ phase = "up"
    /\ tickPc = "loop"
    /\ workers' = workers (+)
         SetToBag({[r |-> r, pc |-> "lookup", err |-> "nil"] : r \in Due(snapshot, now)})
    /\ launches' = [id \in Ids |->
         IF \E r \in Due(snapshot, now) : r.ID = id
         THEN launches[id] \cup {now}
         ELSE launches[id]]
    /\ tickPc' = "idle"
    /\ UNCHANGED <<clock, phase, nextTick, now, snapshot, recordings, nextId,
                   recordingCh, blocked, files, issued, readFailed>>

\* The bodies posted while the tick is followed in its parts.
SchedRequests ==
    [channelId : {"5"}, date : Dates, startTime : {1, 2}, duration : {1}]

\* The scheduler with the handlers running between the query and the loop.
NextSched ==
    \/ Main /\ UNCHANGED observed
    \/ Advance /\ UNCHANGED observed
    \/ \E queryOk \in BOOLEAN : TickQuery(queryOk) /\ UNCHANGED http
    \/ TickLoop /\ UNCHANGED http
    \/ Receive /\ tickPc = "idle" /\ UNCHANGED observed
    \/ Crash /\ tickPc' = "idle" /\ UNCHANGED <<http, readFailed>>
    \/ \E w \in BagToSet(workers) : StartRecordingBegin(w) /\ UNCHANGED observed
    \/ \E w \in BagToSet(workers), err \in {"nil", "exit status 1"} :
          StartRecordingRun(w, err) /\ UNCHANGED observed
    \/ \E w \in BagToSet(workers) : StartRecordingEnd(w) /\ UNCHANGED observed
    \/ \E req \in SchedRequests : CreateRecording(req) /\ UNCHANGED observed
    \/ \E id \in Ids : DeleteRecording(id) /\ UNCHANGED observed

SpecSched == Init /\ [][NextSched]_vars

\* ------------------------------------------------- startup and the channel

\* The most pending rows the store holds when the process starts: one more
\* than recordingCh takes.
MaxStored == RecordingChCap + 1

\* A pending row left by an earlier run, its start ahead of the clock.
StoredRow ==
    [channel_id |-> "5", date |-> 0, start_time |-> MaxStartMinute,
     duration |-> 1, status |-> "pending"]

\* The process starts on a store that earlier runs filled: ids 1..n were
\* inserted and are still pending.
InitStaging ==
    \E n \in 0..MaxStored :
        /\ clock = 0
        /\ phase = "down"
        /\ nextTick = 0
        /\ now = NoTick
        /\ snapshot = {}
        /\ recordings = [id \in 1..n |-> StoredRow]
        /\ nextId = n + 1
        /\ recordingCh = << >>
        /\ blocked = << >>
        /\ workers = EmptyBag
        /\ launches = [id \in Ids |-> {}]
        /\ issued = 1..n
        /\ files = {}
        /\ http = NoExchange
        /\ tickPc = "idle"
        /\ readFailed = FALSE

StagingRequests ==
    [channelId : {"5"}, date : Dates, startTime : {MaxStartMinute}, duration : {1}]

\* main, the scheduler's select loop and the create handlers in the minute
\* before the first tick: no job is due, so no capture worker runs.
NextStaging ==
    \/ Main /\ UNCHANGED observed
    \/ Receive /\ UNCHANGED observed
    \/ \E req \in StagingRequests : CreateRecording(req) /\ UNCHANGED observed

\* The scheduler goroutine is scheduled: its for/select loop never returns,
\* and a ready `case <-recordingCh` is taken.
SpecStaging ==
    /\ InitStaging
    /\ [][NextStaging]_vars
    /\ WF_vars(Receive /\ UNCHANGED observed)

TypeOK ==
    /\ clock \in 0..MaxClock
    /\ phase \in {"down", "blocked", "up"}
    /\ now \in {NoTick} \cup 0..MaxClock
    /\ nextId \in 1..(MaxJobs + 1)
    /\ DOMAIN recordings \subseteq Ids
    /\ \A id \in DOMAIN recordings : recordings[id].status \in Statuses

\* ------------------------------------------------------- steps and windows

\* The step is one tick of the scheduler.
IsTickStep == phase = "up" /\ nextTick' = nextTick + Minute /\ now' = clock

\* The step is main reaching the scheduler: the recovery pass has run.
IsStartupStep == phase = "down" /\ phase' = "up"

\* The step is the return of w's goroutine after cmd.Run().
IsEndStep(w) ==
    /\ phase = "up" /\ phase' = "up"
    /\ BagIn(w, workers) /\ w.pc = "ran"
    /\ workers' = workers (-) SetToBag({w})

\* The end of r's window: start + duration.
EndTime(r) == ParseInLocation(r) + r.Duration * Minute

AllowedTransitions ==
    {<<"pending", "recording">>, <<"recording", "completed">>,
     <<"recording", "failed">>, <<"pending", "failed">>}

\* ------------------------------------------------------------------ claims

\* C1: for every job at most one capture worker is ever launched, over all
\* ticks and restarts.
C1_AtMostOneLaunch == \A id \in Ids : Cardinality(launches[id]) <= 1

\* C2: every change of a job's status is pending->recording,
\* recording->completed, recording->failed or pending->failed.
C2_OnlyAllowedTransitions ==
    [][\A id \in DOMAIN recordings \cap DOMAIN recordings' :
          recordings[id].status # recordings'[id].status
          => <<recordings[id].status, recordings'[id].status>> \in AllowedTransitions]_vars

\* C3: on a tick that reads the time n, a pending job with start s is started
\* if and only if s <= n < s + 1 minute.
C3_HalfOpenWindow ==
    [][IsTickStep =>
         \A r \in snapshot' : ParseOk(r) =>
            (clock \in launches'[r.ID]
             <=> (ParseInLocation(r) <= clock /\ clock < ParseInLocation(r) + Minute))]_vars

\* C4: with ticks exactly one minute apart, a job that is pending from its
\* start instant on is started by a tick at most one minute after that
\* instant: once the tick one minute after a tick at or before the start has
\* run, the job has been launched.
C4_EveryJobStarted ==
    [][(IsTickStep /\ now # NoTick /\ clock = now + Minute) =>
         \A r \in snapshot \cap snapshot' :
            (ParseOk(r) /\ now <= ParseInLocation(r) /\ ParseInLocation(r) < clock)
            => launches'[r.ID] # {}]_vars

\* C5: no job is matched as due, and started, by two consecutive ticks of one
\* scheduler, whatever the drift between their readings of the time.
C5_NeverOnConsecutiveTicks ==
    [][IsTickStep =>
         \A id \in Ids : ~ (now \in launches[id] /\ clock \in launches'[id])]_vars

\* The window alone: two consecutive ticks that read the time at least one
\* minute apart never both start the same job.
Window_NotOnTicksAMinuteApart ==
    [][(IsTickStep /\ now # NoTick /\ clock - now >= Minute) =>
         \A id \in Ids : ~ (now \in launches[id] /\ clock \in launches'[id])]_vars

\* A job started by one tick, whose worker still runs, was read again as
\* pending by the tick one minute later and not started again.
Window_Witness ==
    \E r \in snapshot :
       /\ now - Minute \in launches[r.ID]
       /\ now \notin launches[r.ID]
       /\ \E w \in BagToSet(workers) : w.r.ID = r.ID

\* C6: the recovery pass of a restart moves every pending job whose window has
\* fully elapsed to failed, and launches no capture for it.
C6_RecoveryFailsElapsed ==
    [][IsStartupStep =>
         \A id \in PendingIds :
            (ParseOk(Scan(id)) /\ EndTime(Scan(id)) < clock)
            => /\ recordings'[id].status = "failed"
               /\ launches'[id] = launches[id]]_vars

\* C7: a tick moves every job it reads as pending with a fully elapsed window
\* (start + duration < now) to failed and launches no capture for it.
C7_TickFailsElapsed ==
    [][IsTickStep =>
         \A r \in snapshot' :
            (ParseOk(r) /\ EndTime(r) < clock)
            => /\ recordings'[r.ID].status = "failed"
               /\ clock \notin launches'[r.ID]]_vars

\* C8: the recovery pass moves a pending job that is due at startup to
\* recording and launches its capture, before the first tick.
C8_RecoveryStartsDue ==
    [][IsStartupStep =>
         \A id \in PendingIds :
            (ParseOk(Scan(id)) /\ IsDue(clock, ParseInLocation(Scan(id))))
            => /\ recordings'[id].status = "recording"
               /\ \E w \in BagToSet(workers') : w.r.ID = id]_vars

\* C9: when cmd.Run() of a job's capture returns an error the job becomes
\* failed; a failed job stays failed and is not launched again.
C9_CaptureErrorFails ==
    [][/\ \A w \in BagToSet(workers) :
             (IsEndStep(w) /\ w.err # "nil" /\ w.r.ID \in DOMAIN recordings')
             => recordings'[w.r.ID].status = "failed"
       /\ \A id \in DOMAIN recordings \cap DOMAIN recordings' :
             recordings[id].status = "failed"
             => /\ recordings'[id].status = "failed"
                /\ launches'[id] = launches[id]]_vars

\* C10: when cmd.Run() of a job's capture returns nil the job goes from
\* recording to completed, stays completed, and a fetch of a completed job's
\* file is not answered 403.
C10_CleanExitCompletes ==
    [][/\ \A w \in BagToSet(workers) :
             (IsEndStep(w) /\ w.err = "nil" /\ w.r.ID \in DOMAIN recordings)
             => /\ recordings[w.r.ID].status = "recording"
                /\ recordings'[w.r.ID].status = "completed"
                /\ GetRecordingFileGate(w.r.ID)' # 403
       /\ \A id \in DOMAIN recordings \cap DOMAIN recordings' :
             recordings[id].status = "completed"
             => /\ recordings'[id].status = "completed"
                /\ GetRecordingFileGate(id)' # 403]_vars

\* ------------------------------------------------------ claims on fetching

\* The step is a fetch of an integer id.
IsFetchStep == http'.op = "GET" /\ http'.id # BadId

\* C11: a fetch of an id the store lacks is answered 404 (whatever else holds:
\* the row is looked up before its status), of a job that is not completed
\* 403, of a completed job whose file is missing 404; none streams file bytes.
C11_FetchRefusals ==
    [][IsFetchStep =>
         LET id == http'.id
             resp == http'.resp
         IN /\ id \notin DOMAIN recordings
               => resp.code = 404 /\ resp.fileBytes = <<>>
            /\ (id \in DOMAIN recordings /\ recordings[id].status # "completed")
               => resp.code = 403 /\ resp.fileBytes = <<>>
            /\ (/\ id \in DOMAIN recordings
                /\ recordings[id].status = "completed"
                /\ <<recordings[id].date, recordings[id].start_time,
                     channels[recordings[id].channel_id],
                     recordings[id].channel_id>> \notin files)
               => resp.code = 404 /\ resp.fileBytes = <<>>]_vars

\* A completed job whose file is gone has been fetched and answered 404.
C11_Witness ==
    /\ http.op = "GET" /\ http.id \in DOMAIN recordings
    /\ recordings[http.id].status = "completed"
    /\ files = {}
    /\ http.resp.code = 404

\* A run of one or more decimal digits.
IsDigits(t) == t # <<>> /\ \A i \in 1..Len(t) : t[i] \in DOMAIN Digit

\* The header is "bytes=A-B" or "bytes=A-", A and B runs of decimal digits,
\* with the dash at position k.
IsRangeAt(hdr, k) ==
    /\ k \in 3..Len(hdr)
    /\ hdr[1] = "bytes" /\ hdr[2] = "=" /\ hdr[k] = "-"
    /\ IsDigits(SubSeq(hdr, 3, k - 1))
    /\ k = Len(hdr) \/ IsDigits(SubSeq(hdr, k + 1, Len(hdr)))

WellFormed(hdr) == \E k \in 3..Len(hdr) : IsRangeAt(hdr, k)

\* A of a well-formed header.
FirstByte(hdr) ==
    LET k == CHOOSE j \in 3..Len(hdr) : IsRangeAt(hdr, j)
    IN Decimal(SubSeq(hdr, 3, k - 1))

\* B of a well-formed header; the last byte of the file when B is omitted.
LastByte(hdr, S) ==
    LET k == CHOOSE j \in 3..Len(hdr) : IsRangeAt(hdr, j)
    IN IF k = Len(hdr) THEN S - 1 ELSE Decimal(SubSeq(hdr, k + 1, Len(hdr)))

\* The latest exchange is a fetch that reached the file, of size http.stat.
FetchedFile == http.op = "GET" /\ http.stat # NoStat

\* C12: for a completed job whose file has S bytes, "bytes=A-B" with
\* 0 <= A <= B < S, or "bytes=A-" with 0 <= A < S (then B = S - 1), is answered
\* 206 with Content-Range "bytes A-B/S", Content-Length B-A+1 and exactly the
\* bytes A..B of the file.
C12_PartialContent ==
    (FetchedFile /\ WellFormed(http.range)) =>
        LET S == http.stat
            A == FirstByte(http.range)
            B == LastByte(http.range, S)
        IN (A <= B /\ B < S) =>
              /\ http.resp.code = 206
              /\ http.resp.contentRange =
                    <<"bytes", " ">> \o FormatInt(A) \o <<"-">> \o FormatInt(B)
                    \o <<"/">> \o FormatInt(S)
              /\ http.resp.contentLength = FormatInt(B - A + 1)
              /\ http.resp.fileBytes = [i \in 1..(B - A + 1) |-> A + i - 1]

\* "bytes=1-" against a file of 3 bytes was answered with the bytes 1 and 2.
C12_Witness ==
    /\ FetchedFile /\ http.stat = 3
    /\ http.range = <<"bytes", "=", "1", "-">>
    /\ http.resp.code = 206
    /\ http.resp.fileBytes = <<1, 2>>

\* C13: every Range header that is not "bytes=A-B" or "bytes=A-" with A and B
\* non-negative decimal integers (a bound that is no number, a unit other
\* than bytes, a value with no dash, several ranges with commas) is answered
\* 400 and no file bytes.
C13_MalformedRangeRejected ==
    (FetchedFile /\ http.range # <<>> /\ ~WellFormed(http.range)) =>
        /\ http.resp.code = 400
        /\ http.resp.fileBytes = <<>>

\* C14: a well-formed range with A > B or B >= S is answered 416, never 206,
\* with no Content-Range header and no file bytes.
C14_UnsatisfiableRange ==
    (FetchedFile /\ WellFormed(http.range)) =>
        LET S == http.stat
            A == FirstByte(http.range)
            B == LastByte(http.range, S)
        IN (A > B \/ B >= S) =>
              /\ http.resp.code = 416
              /\ http.resp.contentRange = <<>>
              /\ http.resp.fileBytes = <<>>

\* "bytes=0-3" against a file of 3 bytes was answered 416.
C14_Witness ==
    /\ FetchedFile /\ http.stat = 3
    /\ http.range = <<"bytes", "=", "0", "-", "3">>
    /\ http.resp.code = 416

\* C15: without a Range header the fetch of a completed job whose file has S
\* bytes is answered 200 with Content-Length S, Accept-Ranges: bytes, a
\* Content-Disposition naming the file as an attachment, and the whole file.
C15_FullFile ==
    (FetchedFile /\ http.range = <<>>) =>
        LET S == http.stat
        IN /\ http.resp.code = 200
           /\ http.resp.contentLength = FormatInt(S)
           /\ http.resp.acceptRanges = "bytes"
           /\ http.resp.contentDisposition
                 = <<"attachment; filename=",
                     <<recordings[http.id].date, recordings[http.id].start_time,
                       channels[recordings[http.id].channel_id],
                       recordings[http.id].channel_id>>>>
           /\ http.resp.fileBytes = [i \in 1..S |-> i - 1]

\* A file of 3 bytes was fetched whole.
C15_Witness ==
    /\ FetchedFile /\ http.range = <<>> /\ http.stat = 3
    /\ http.resp.code = 200
    /\ http.resp.fileBytes = <<0, 1, 2>>

\* ------------------------------------------- claims on creating and deleting

\* The step is a create; the step is a delete of an integer id.
IsCreateStep == http'.op = "POST"
IsDeleteStep == http'.op = "DELETE" /\ http'.id # BadId

\* C16: a create with duration <= 0 is answered 400, and one (of positive
\* duration) naming a channel the store lacks 404; neither inserts a row,
\* hands anything to the scheduler or changes the store.
C16_RejectedCreate ==
    [][IsCreateStep =>
         LET req == http'.create
         IN /\ req.duration <= 0 => http'.resp.code = 400
            /\ (req.duration > 0 /\ req.channelId \notin DOMAIN channels)
               => http'.resp.code = 404
            /\ (req.duration <= 0 \/ req.channelId \notin DOMAIN channels)
               => /\ recordings' = recordings
                  /\ nextId' = nextId
                  /\ recordingCh' = recordingCh
                  /\ blocked' = blocked
                  /\ workers' = workers]_vars

\* A create for the unknown channel 9 was answered 404 with a job in the store.
C16_Witness ==
    /\ http.op = "POST" /\ http.create.channelId = "9" /\ http.create.duration > 0
    /\ http.resp.code = 404
    /\ DOMAIN recordings # {}

\* C17: every create of positive duration for a known channel inserts exactly
\* one new pending row and is answered 201 with an id that no job ever had,
\* also when a job with the same channel, date and start exists and after
\* deletions; every other row stays as it was.
C17_FreshIdPerCreate ==
    [][(/\ IsCreateStep
        /\ http'.create.duration > 0
        /\ http'.create.channelId \in DOMAIN channels) =>
         LET req == http'.create
             id == http'.resp.id
         IN /\ http'.resp.code = 201
            /\ id \notin issued
            /\ id \notin DOMAIN recordings
            /\ DOMAIN recordings' = DOMAIN recordings \cup {id}
            /\ recordings'[id] = [channel_id |-> req.channelId, date |-> req.date,
                                  start_time |-> req.startTime,
                                  duration |-> req.duration, status |-> "pending"]
            /\ \A i \in DOMAIN recordings : recordings'[i] = recordings[i]]_vars

\* A second job with the channel, date and start of the first was created
\* under its own id.
C17_Witness ==
    /\ http.op = "POST" /\ http.resp.code = 201 /\ http.resp.id = 2
    /\ DOMAIN recordings = {1, 2}
    /\ recordings[1].channel_id = recordings[2].channel_id
    /\ recordings[1].date = recordings[2].date
    /\ recordings[1].start_time = recordings[2].start_time

\* C18: DELETE of an id is answered 204 whether or not the job exists and
\* whatever its status; afterwards the store has no job of that id, every
\* other job is as it was, and no capture file is removed.
C18_DeleteUnconditional ==
    [][IsDeleteStep =>
         LET id == http'.id
         IN /\ http'.resp.code = 204
            /\ DOMAIN recordings' = DOMAIN recordings \ {id}
            /\ \A i \in DOMAIN recordings' : recordings'[i] = recordings[i]
            /\ files' = files]_vars

\* A job that had been captured was deleted; its file is still there.
C18_Witness ==
    /\ http.op = "DELETE" /\ http.resp.code = 204
    /\ http.id \in issued /\ http.id \notin DOMAIN recordings
    /\ launches[http.id] # {}
    /\ files # {}

\* C19: a job that is completed or failed keeps its status for as long as its
\* row exists, through ticks, late or duplicate workers and restarts.
C19_TerminalIsFinal ==
    [][\A id \in DOMAIN recordings \cap DOMAIN recordings' :
          recordings[id].status \in {"completed", "failed"}
          => recordings'[id] = recordings[id]]_vars

\* A job launched by two ticks is completed and both workers are gone.
C19_Witness ==
    /\ phase = "up" /\ workers = EmptyBag
    /\ \E id \in DOMAIN recordings :
          /\ recordings[id].status = "completed"
          /\ Cardinality(launches[id]) >= 2

\* C20: a fetch, whatever it answers, leaves the set of jobs and every job's
\* row as they were (the channels are never written by any handler).
C20_FetchReadsOnly ==
    [][http'.op = "GET" => /\ recordings' = recordings
                           /\ nextId' = nextId
                           /\ files' = files]_vars

\* A fetch of a completed job was answered 416.
C20_Witness ==
    /\ http.op = "GET" /\ http.resp.code = 416
    /\ http.id \in DOMAIN recordings
    /\ recordings[http.id].status = "completed"

\* ---------------------------------------------------- claims on the tick

\* The step is the first part of a tick; the query of that part failed; the
\* step is the loop of a tick.
IsQueryStep ==
    phase = "up" /\ phase' = "up" /\ nextTick' = nextTick + Minute /\ now' = clock
IsFailedQueryStep == IsQueryStep /\ tickPc' # "loop"
IsLoopStep == phase = "up" /\ phase' = "up" /\ tickPc = "loop" /\ tickPc' = "idle"

\* The job's start instant lies in [start, start + 1 minute) at n.
InHalfOpenWindow(r, n) ==
    ParseOk(r) /\ ParseInLocation(r) <= n /\ n < ParseInLocation(r) + Minute

\* The step gives job id a new capture worker.
Starts(id) ==
    \E w \in BagToSet(workers') :
        /\ w.r.ID = id /\ w.pc = "lookup"
        /\ CopiesIn(w, workers') > CopiesIn(w, workers)

\* Lemma: a tick whose read of the pending jobs fails changes no row and
\* launches nothing, and leaves the scheduler in its select with the next
\* tick armed; every tick whose read works launches each job of its slice
\* that now.After(start) && now.Before(start + 1 minute) holds for,
\* whatever reads failed before.
Tick_FailedReadSkipsTick ==
    [][/\ IsFailedQueryStep =>
            /\ recordings' = recordings
            /\ workers' = workers
            /\ launches' = launches
            /\ tickPc' = "idle"
       /\ IsLoopStep =>
            \A r \in snapshot :
               (ParseOk(r) /\ IsDue(now, ParseInLocation(r)))
               => /\ now \in launches'[r.ID]
                  /\ \E w \in BagToSet(workers') : w.r.ID = r.ID]_vars

\* After a failed read, a later tick has launched a job of its slice.
Tick_FailedReadWitness ==
    /\ readFailed /\ phase = "up" /\ tickPc = "idle"
    /\ \E r \in snapshot : now \in launches[r.ID]

\* C21: a tick whose read of the pending jobs fails changes no row and
\* launches nothing and the scheduler keeps running; after a failed read, a
\* job that is due (now in [start, start + 1 minute)) on a tick whose read
\* works is started by that tick.
C21_FailedReadSkipsTick ==
    [][/\ IsFailedQueryStep =>
            /\ recordings' = recordings
            /\ workers' = workers
            /\ launches' = launches
            /\ tickPc' = "idle"
       /\ (IsLoopStep /\ readFailed) =>
            \A r \in snapshot : InHalfOpenWindow(r, now) => Starts(r.ID)]_vars

\* C22: the loop of a tick starts only jobs of the one slice read at the
\* tick's start, against the one now read there; a job deleted after that
\* read is not started by this tick, a job created after it is not in the
\* slice, and the next tick's slice holds every row pending at its read.
C22_OneSnapshotPerTick ==
    [][/\ IsLoopStep =>
            \A id \in Ids :
               Starts(id) => /\ \E r \in snapshot : r.ID = id /\ IsDue(now, ParseInLocation(r))
                             /\ id \in DOMAIN recordings
       /\ (IsQueryStep /\ ~IsFailedQueryStep) =>
            snapshot' = {Scan(id) : id \in PendingIds}]_vars

\* C23: a tick's loop returns to the select in the same step, whatever
\* workers run, and while a worker is running a tick starts every other job
\* that is due (now in [start, start + 1 minute)).
C23_LaunchNeverBlocks ==
    [][(IsLoopStep /\ workers # EmptyBag) =>
         \A r \in snapshot :
            (InHalfOpenWindow(r, now) /\ \A w \in BagToSet(workers) : w.r.ID # r.ID)
            => Starts(r.ID)]_vars

\* ----------------------------------------------------- claims on the files

\* C24: for every job a capture worker completed, the path the file server
\* derives equals the path the worker wrote to, <date>-<startTime>-
\* <channelDisplayName>-<channelId>.mp4, and so does every other path
\* function of the code base.
C24_OnePathEverywhere ==
    \A id \in DOMAIN recordings :
       recordings[id].status = "completed"
       => /\ OutputFile(Scan(id)) = <<recordings[id].date, recordings[id].start_time,
                                      channels[recordings[id].channel_id],
                                      recordings[id].channel_id>>
          /\ FilePath(Scan(id)) = OutputFile(Scan(id))
          /\ GetFilePath(Scan(id)) = OutputFile(Scan(id))

\* Lemma: the file server's path of a completed job is the worker's.
Path_ServerReadsWorkersFile ==
    \A id \in DOMAIN recordings :
       recordings[id].status = "completed" => FilePath(Scan(id)) = OutputFile(Scan(id))

\* C26: no two capture workers of distinct jobs that run at the same time
\* write the same output file or the same capture log.
C26_NoSharedFiles ==
    \A w1 \in BagToSet(workers), w2 \in BagToSet(workers) :
       (w1.pc = "ffmpeg" /\ w2.pc = "ffmpeg" /\ w1.r.ID # w2.r.ID)
       => /\ OutputFile(w1.r) # OutputFile(w2.r)
          /\ LogFile(w1.r) # LogFile(w2.r)

\* ------------------------------------------- claims on the staged channel

\* The step is the scheduler's receive from recordingCh.
IsReceiveStep ==
    phase = "up" /\ phase' = "up" /\ Len(recordingCh') < Len(recordingCh)

\* C25: the scheduler's receive of a staged job launches nothing and changes
\* no row; a capture is launched only by the loop of a tick whose slice holds
\* the job, pending, with now inside its window.
C25_StagedJobIsInert ==
    [][/\ IsReceiveStep =>
            /\ workers' = workers
            /\ launches' = launches
            /\ recordings' = recordings
            /\ files' = files
       /\ \A id \in Ids :
            Starts(id) =>
               /\ IsLoopStep
               /\ \E r \in snapshot :
                     r.ID = id /\ r.Status = "pending" /\ InHalfOpenWindow(r, now)]_vars

\* A job was staged and received before any tick: it is pending in the
\* store, the channel is empty, nothing was launched.
C25_Witness ==
    /\ clock = 0 /\ phase = "up"
    /\ DOMAIN recordings # {}
    /\ recordingCh = << >>
    /\ workers = EmptyBag
    /\ \A id \in Ids : launches[id] = {}

\* C28: the final update of a worker whose job was deleted changes no row:
\* an id that left the store never comes back, and the update of a worker
\* touches no row but its own job's.
C28_NoResurrection ==
    [][/\ \A id \in issued \ DOMAIN recordings : id \notin DOMAIN recordings'
       /\ \A w \in BagToSet(workers) :
            IsEndStep(w) =>
               /\ DOMAIN recordings' = DOMAIN recordings
               /\ \A i \in DOMAIN recordings \ {w.r.ID} : recordings'[i] = recordings[i]]_vars

\* The capture of a job returned nil after the job was deleted; the store
\* holds another job.
C28_Witness ==
    /\ phase = "up"
    /\ \E w \in BagToSet(workers) :
          w.pc = "ran" /\ w.err = "nil" /\ w.r.ID \notin DOMAIN recordings
    /\ DOMAIN recordings # {}

\* ------------------------------------------ claims on startup and staging

\* C27: startup reaches the scheduler and the HTTP server for any number of
\* pending future jobs in the store: main is never parked in loadRecordings.
C27_StartupCompletes == phase # "blocked"

\* The create handler of job id is parked in `recordingCh <- recording`.
Parked(id) == \E i \in 1..Len(blocked) : blocked[i].ID = id

\* The send of job id was accepted: the handler goes on to write 201.
Sent(id) == id \in issued /\ ~ Parked(id)

\* The ids a create can take in the model.
StagingIds ==
    UNION {first..(first + MaxJobs - 1) : first \in {1, RecordingChCap + 1}}

\* C29: with the scheduler running, a valid create inserts the row and then
\* sends the job; the row is in the store while the send waits, and every
\* waiting send is accepted in the end, however many creates wait.
C29_CreateEventuallyAnswered ==
    /\ [][nextId' # nextId =>
             /\ nextId \in DOMAIN recordings'
             /\ LET row == recordings'[nextId]
                    recording == [ID |-> nextId,
                                  ChannelID |-> row.channel_id,
                                  Date |-> row.date,
                                  StartTime |-> row.start_time,
                                  Duration |-> row.duration,
                                  Status |-> row.status]
                IN \/ recordingCh' = Append(recordingCh, recording)
                   \/ blocked' = Append(blocked, recording)]_vars
    /\ [](\A id \in StagingIds : Parked(id) => id \in DOMAIN recordings)
    /\ \A id \in StagingIds : Parked(id) ~> Sent(id)

\* recordingCh is full and every create the model allows is waiting.
C29_Witness ==
    /\ phase = "up"
    /\ Len(recordingCh) = RecordingChCap
    /\ Len(blocked) >= 2
    /\ \A i \in 1..Len(blocked) : blocked[i].ID \in DOMAIN recordings

=============================================================================
